---- MODULE Spec2Model ----
(***************************************************************************)
(* A model of zettel: the ESC/POS printer's scoped text attributes and     *)
(* text layout (printer/escpos.py), the item bucket (bucket.py), the       *)
(* event's view of "today" (event.py), the default template                *)
(* (template/default.py) and the providers' priority conversions.          *)
(***************************************************************************)
EXTENDS Integers, Sequences, FiniteSets, TLC

VARIABLES
    width,      \* Printer._width: characters the printer puts on a line
    out,        \* the backend driver calls the last operation made, in order
    param,      \* Printer._param: the shadow dictionary of format parameters
    frames,     \* the suspended _set generators, oldest first: [tmp, kw],
                \* with _param as it was on entry
    devAttr,    \* the parameter set the backend driver accepted last
    pushed,     \* <<>> or <<d>>: the argument of the last _printer.set call
    lastCmd,    \* kind of the last command handed to the backend driver
    cuts,       \* number of cut commands handed to the backend driver
    exc,        \* the exception that is propagating, or "none"
    session,    \* "body" inside `with printer:`, "left" after __exit__
    lastOp,     \* the operation that ran last
    failed,     \* a backend driver call failed during the last operation
    base,       \* _param when the outermost open scope was entered
    lifo,       \* every exit since then left the innermost scope
    fails,      \* number of backend driver calls that failed so far
    unordered,  \* number of scopes left while a later scope was open
    lastText    \* the arguments s and prefix of the last call of text

printerVars == <<width, out, param, frames, devAttr, pushed, lastCmd, cuts, exc,
                 session, lastOp, failed, base, lifo, fails, unordered, lastText>>

VARIABLES
    keyOf,      \* what an element compares equal to: a == b iff keyOf agrees
    bucket,     \* the Bucket (self), a list of elements
    matched,    \* the Bucket the last fetch returned
    orig,       \* the Bucket as it was when the last fetch was called
    pred,       \* the elements the filter of the last fetch accepts
    evals,      \* the elements the filter was called with, in order
    bucketOp    \* the Bucket operation that ran last

bucketVars == <<keyOf, bucket, matched, orig, pred, evals, bucketOp>>

VARIABLES
    today,      \* datetime.date.today(), as a day number
    zone,       \* the system's time zone: <<>>, or <<w>> when its clocks are
                \* put forward at the local time w
    ev,         \* the Event: _start, _end, all_day (and the flag passed in)
    startRead,  \* what Event.start returned last
    endRead,    \* what Event.end returned last
    evOp        \* the Event operation that ran last

eventVars == <<today, zone, ev, startRead, endRead, evOp>>

VARIABLES
    attrs,      \* the fields of each item: kind, priority (<<>> is None), due
    items,      \* the bucket handed to printTemplate
    given,      \* that bucket as it was when printTemplate was called
    sorted,     \* printTemplate's tasks after its two sorts
    tasks,      \* printTemplate's tasks when it returns
    printed,    \* the calls of the printer printTemplate made, in order
    tplOp       \* "new", or "printed" after printTemplate returned

templateVars == <<attrs, items, given, sorted, tasks, printed, tplOp>>

VARIABLES
    priorities, \* the JIRA provider's _priorities: names mapped to Priority
    convBy,     \* the conversion that ran last, or "none"
    convSrc,    \* the backend value it was given
    convOut     \* what it did: the exception raised, or the value returned

providerVars == <<priorities, convBy, convSrc, convOut>>

vars == <<printerVars, bucketVars, eventVars, templateVars, providerVars>>

notPrinter == <<bucketVars, eventVars, templateVars, providerVars>>

notBucket == <<printerVars, eventVars, templateVars, providerVars>>

notEvent == <<printerVars, bucketVars, templateVars, providerVars>>

notTemplate == <<printerVars, bucketVars, providerVars>>

notProvider == <<printerVars, bucketVars, eventVars, templateVars>>

----------------------------------------------------------------------------
(* Bounds *)

MaxDepth == 2

MaxFails == 1

MaxUnordered == 1

MaxWidth == 4

MaxTextWidth == 6

MaxItems == 3

MaxLen == 4

MaxDay == 2

HalfDay == 2

----------------------------------------------------------------------------
(* Dictionaries of format parameters *)

EmptyDict == [k \in {} |-> TRUE]

\* dict.update(kwargs)
Update(d, kw) ==
    [k \in DOMAIN d \cup DOMAIN kw |-> IF k \in DOMAIN kw THEN kw[k] ELSE d[k]]

\* The keyword arguments of the four modifiers, and of direct _set calls.
ModifierKw ==
    [center    |-> [align |-> "center"],
     bold      |-> [bold |-> TRUE],
     underline |-> [underline |-> TRUE],
     highlight |-> [invert |-> TRUE]]

Modifiers == DOMAIN ModifierKw

SetKw == {[double_width |-> TRUE]}

ScopeKw == {ModifierKw[m] : m \in Modifiers} \cup SetKw

----------------------------------------------------------------------------
(* Printer._set *)

\* One call of the backend driver: set(**arg), text(arg) or cut()
Call(cmd, arg, ok) == [cmd |-> cmd, arg |-> arg, ok |-> ok]

\* n more backend driver calls may fail
CanFail(n) == fails + n <= MaxFails

\* tmp aliases _param, so update() changes it too
SnapshotAlias(d, kw) == Update(d, kw)

\* tmp = self._param.copy(), taken before update()
Snapshot(d, kw) == d

\* drop the keys this scope set instead of restoring the copy
RestoreByRemoval(tmp, cur, kw, raising) ==
    [k \in DOMAIN cur \ DOMAIN kw |-> cur[k]]

\* restore the copy, less the attributes this scope set itself
RestoreWithoutOwn(tmp, cur, kw, raising) ==
    [k \in DOMAIN tmp \ DOMAIN kw |-> tmp[k]]

\* restore after the yield, without try/finally
RestoreUnlessRaising(tmp, cur, kw, raising) ==
    IF raising THEN cur ELSE tmp

\* finally: self._param = tmp
Restored(tmp, cur, kw, raising) == tmp

RemoveAt(s, i) == SubSeq(s, 1, i - 1) \o SubSeq(s, i + 1, Len(s))

\* Entering `with self._set(**kw)`: the generator runs up to its yield.
\* ok1: the driver accepts the merged set; ok2: it accepts the restored one.
SetEnter(kw, ok1, ok2) ==
    /\ session = "body" /\ exc = "none"
    /\ Len(frames) < MaxDepth
    /\ ok1 => ok2
    /\ CanFail(IF ok1 THEN 0 ELSE IF ok2 THEN 1 ELSE 2)
    /\ fails' = fails + (IF ok1 THEN 0 ELSE IF ok2 THEN 1 ELSE 2)
    /\ LET tmp    == Snapshot(param, kw)
           merged == Update(param, kw)
           back   == Restored(tmp, merged, kw, TRUE)
       IN  /\ base' = IF frames = <<>> THEN param ELSE base
           /\ lifo' = IF frames = <<>> THEN TRUE ELSE lifo
           /\ out' = IF ok1 THEN <<Call("set", merged, TRUE)>>
                      ELSE <<Call("set", merged, FALSE), Call("set", back, ok2)>>
           /\ IF ok1
              THEN /\ frames' = Append(frames, [tmp |-> tmp, kw |-> kw,
                                              entry |-> param])
                   /\ param' = merged
                   /\ pushed' = <<merged>>
                   /\ devAttr' = merged
                   /\ exc' = "none"
                   /\ failed' = FALSE
                   /\ lastOp' = "enter"
              ELSE /\ frames' = frames
                   /\ param' = back
                   /\ pushed' = <<back>>
                   /\ devAttr' = IF ok2 THEN back ELSE devAttr
                   /\ exc' = "DeviceError"
                   /\ failed' = TRUE
                   /\ lastOp' = "enter_failed"
    /\ lastCmd' = "set"
    /\ UNCHANGED <<lastText, width, cuts, session, unordered>>
    /\ UNCHANGED notPrinter

\* Leaving scope i: the generator resumes after its yield and runs `finally`.
ExitFrame(i, ok) ==
    LET f    == frames[i]
        back == Restored(f.tmp, param, f.kw, exc # "none")
    IN  /\ frames' = RemoveAt(frames, i)
        /\ param' = back
        /\ pushed' = <<back>>
        /\ out' = <<Call("set", back, ok)>>
        /\ devAttr' = IF ok THEN back ELSE devAttr
        /\ exc' = IF ok THEN exc ELSE "DeviceError"
        /\ failed' = ~ok
        /\ fails' = fails + (IF ok THEN 0 ELSE 1)
        /\ lastCmd' = "set"
        /\ lastOp' = "exit"
        /\ UNCHANGED <<lastText, width, cuts, session, base>>
        /\ UNCHANGED notPrinter

\* The innermost scope ends, normally or with an exception passing through.
SetExit(ok) ==
    /\ session = "body"
    /\ frames # <<>>
    /\ CanFail(IF ok THEN 0 ELSE 1)
    /\ ExitFrame(Len(frames), ok)
    /\ UNCHANGED <<lifo, unordered>>

\* A context manager object is closed by hand while a later one is open.
SetExitOutOfOrder(i, ok) ==
    /\ session = "body" /\ exc = "none"
    /\ i \in 1..(Len(frames) - 1)
    /\ unordered < MaxUnordered
    /\ CanFail(IF ok THEN 0 ELSE 1)
    /\ ExitFrame(i, ok)
    /\ lifo' = FALSE
    /\ unordered' = unordered + 1

\* The caller's `except` clause handles the exception where it is.
Catch ==
    /\ session = "body"
    /\ exc # "none"
    /\ exc' = "none"
    /\ failed' = FALSE
    /\ lastOp' = "catch"
    /\ out' = <<>>
    /\ UNCHANGED <<lastText, width, param, frames, devAttr, pushed, lastCmd, cuts, session,
                   base, lifo, fails, unordered>>
    /\ UNCHANGED notPrinter

----------------------------------------------------------------------------
(* textwrap.wrap, as Printer.text calls it: strings are sequences of the   *)
(* characters "a" (a letter), " " and "\n"                                 *)

Chars == {"a", " ", "\n"}

IsWhite(c) == c \in {" ", "\n"}

\* replace_whitespace: every whitespace character becomes a space
Munge(s) == [i \in 1..Len(s) |-> IF IsWhite(s[i]) THEN " " ELSE s[i]]

IsSpaceChunk(c) == \A i \in 1..Len(c) : c[i] = " "

\* length of the run of spaces, or of letters, a non-empty string starts with
RunLen(s) ==
    CHOOSE n \in 1..Len(s) :
        /\ \A i \in 1..n : (s[i] = " ") = (s[1] = " ")
        /\ n = Len(s) \/ (s[n + 1] = " ") # (s[1] = " ")

\* TextWrapper._split: words and runs of whitespace, in order
RECURSIVE SplitChunks(_)
SplitChunks(s) ==
    IF s = <<>> THEN <<>>
    ELSE <<SubSeq(s, 1, RunLen(s))>> \o SplitChunks(SubSeq(s, RunLen(s) + 1, Len(s)))

RECURSIVE SumLen(_, _)
SumLen(chunks, k) == IF k = 0 THEN 0 ELSE Len(chunks[k]) + SumLen(chunks, k - 1)

RECURSIVE Join(_)
Join(chunks) == IF chunks = <<>> THEN <<>> ELSE Head(chunks) \o Join(Tail(chunks))

\* TextWrapper._wrap_chunks. The width is w2 / 2; isFloat says that it is a
\* Python float. The result is the list of lines, or the exception raised.
RECURSIVE WrapChunks(_, _, _, _)
WrapChunks(chunks, w2, isFloat, lines) ==
    IF chunks = <<>> THEN [exc |-> "none", lines |-> lines]
    ELSE
    LET c1   == IF lines # <<>> /\ IsSpaceChunk(Head(chunks))
                THEN Tail(chunks) ELSE chunks
        k    == CHOOSE n \in 0..Len(c1) :
                    /\ 2 * SumLen(c1, n) <= w2
                    /\ n = Len(c1) \/ 2 * SumLen(c1, n + 1) > w2
        cur  == SubSeq(c1, 1, k)
        rest == SubSeq(c1, k + 1, Len(c1))
        long == rest # <<>> /\ 2 * Len(Head(rest)) > w2
        \* _handle_long_word: space_left is 1, or width - cur_len
        slice == long /\ w2 >= 2 /\ isFloat
        left == IF w2 < 2 THEN 1 ELSE (w2 \div 2) - SumLen(c1, k)
        cur2 == IF long THEN Append(cur, SubSeq(Head(rest), 1, left)) ELSE cur
        rest2 == IF long
                 THEN <<SubSeq(Head(rest), left + 1, Len(Head(rest)))>> \o Tail(rest)
                 ELSE rest
        cur3 == IF cur2 # <<>> /\ IsSpaceChunk(cur2[Len(cur2)])
                THEN SubSeq(cur2, 1, Len(cur2) - 1) ELSE cur2
        acc  == IF cur3 # <<>> THEN Append(lines, Join(cur3)) ELSE lines
    IN  IF slice THEN [exc |-> "TypeError", lines |-> <<>>]
        ELSE WrapChunks(rest2, w2, isFloat, acc)

\* textwrap.wrap(s, width) with width = w2 / 2
wrap(s, w2, isFloat) ==
    IF w2 <= 0 THEN [exc |-> "ValueError", lines |-> <<>>]
    ELSE WrapChunks(SplitChunks(Munge(s)), w2, isFloat, <<>>)

----------------------------------------------------------------------------
(* Printer.text, blank, listItem and heading *)

Min(S) == CHOOSE x \in S : \A y \in S : x <= y

\* which backend calls of one operation fail: the k-th fails iff k \in F
RECURSIVE SetsUpTo(_, _)
SetsUpTo(maxCalls, k) ==
    IF k <= 0 THEN {{}}
    ELSE LET S == SetsUpTo(maxCalls, k - 1)
         IN  S \cup {F \cup {i} : F \in S, i \in 1..maxCalls}

FailSets(maxCalls) == SetsUpTo(maxCalls, MaxFails - fails)

\* self._param.get('double_width')
DoubleWidth(p) == "double_width" \in DOMAIN p /\ p["double_width"] = TRUE

\* continuation lines not indented
NoSpaces(n) == <<>>

\* ''.ljust(n)
Spaces(n) == [i \in 1..n |-> " "]

RECURSIVE Continuation(_, _)
Continuation(prefix, ls) ==
    IF ls = <<>> THEN <<>>
    ELSE <<Spaces(Len(prefix)), Append(Head(ls), "\n")>>
         \o Continuation(prefix, Tail(ls))

\* the strings text() hands to _printer.text, in order; lines[0] of an empty
\* list is reached after the prefix has been written
TextWrites(prefix, lines) ==
    IF lines = <<>> THEN <<prefix>>
    ELSE <<prefix, Append(lines[1], "\n")>> \o Continuation(prefix, Tail(lines))

\* Printer.text(s, prefix) under the parameters p, up to the first backend
\* call: the exception textwrap raises, or the strings to be written
TextPlan(p, s, prefix) ==
    LET isFloat == DoubleWidth(p)
        w2  == (IF isFloat THEN width ELSE 2 * width) - 2 * Len(prefix)
        r   == wrap(s, w2, isFloat)
    IN  [exc |-> r.exc, empty |-> r.lines = <<>>,
         writes |-> IF r.exc = "none" THEN TextWrites(prefix, r.lines) ELSE <<>>]

\* the rest of Printer.text, after `before` earlier backend calls of the
\* same operation: the calls made and the exception
TextRun(plan, F, before) ==
    LET P   == plan.writes
        bad == {k \in 1..Len(P) : (before + k) \in F}
        n   == IF bad = {} THEN Len(P) ELSE Min(bad)
    IN  IF plan.exc # "none" THEN [out |-> <<>>, exc |-> plan.exc]
        ELSE [out |-> [k \in 1..n |-> Call("text", P[k], (before + k) \notin F)],
              exc |-> IF bad # {} THEN "DeviceError"
                      ELSE IF plan.empty THEN "IndexError" ELSE "none"]

\* the argument of the last set call among `calls` (of the accepted ones
\* only, if accepted), or dflt
RECURSIVE LastSet(_, _, _)
LastSet(calls, accepted, dflt) ==
    IF calls = <<>> THEN dflt
    ELSE LET c == calls[Len(calls)]
         IN  IF c.cmd = "set" /\ (c.ok \/ ~accepted) THEN c.arg
             ELSE LastSet(SubSeq(calls, 1, Len(calls) - 1), accepted, dflt)

\* what an operation that made `calls` leaves behind in the backend driver
Driver(calls, F) ==
    /\ F \subseteq 1..Len(calls)
    /\ fails' = fails + Cardinality(F)
    /\ failed' = (F # {})
    /\ out' = calls
    /\ devAttr' = LastSet(calls, TRUE, devAttr)
    /\ pushed' = IF \E k \in 1..Len(calls) : calls[k].cmd = "set"
                 THEN <<LastSet(calls, FALSE, EmptyDict)>> ELSE pushed
    /\ lastCmd' = IF calls = <<>> THEN lastCmd ELSE calls[Len(calls)].cmd

TextOp(s, prefix, name) ==
    /\ session = "body" /\ exc = "none"
    /\ \E plan \in {TextPlan(param, s, prefix)} :
       \E F \in FailSets(Len(plan.writes)) :
       \E r \in {TextRun(plan, F, 0)} :
          /\ Driver(r.out, F)
          /\ exc' = r.exc
    /\ lastOp' = name
    /\ lastText' = [s |-> s, prefix |-> prefix]
    /\ UNCHANGED <<width, param, frames, cuts, session, base, lifo, unordered>>
    /\ UNCHANGED notPrinter

Text(s, prefix) == TextOp(s, prefix, "text")

ListItem(s, checkbox) ==
    TextOp(s, IF checkbox THEN <<"[", " ", "]", " ">> ELSE <<"-", " ">>,
           "listItem")

Blank ==
    /\ session = "body" /\ exc = "none"
    /\ \E F \in FailSets(1) :
          /\ Driver(<<Call("text", <<"\n">>, 1 \notin F)>>, F)
          /\ exc' = IF 1 \in F THEN "DeviceError" ELSE "none"
    /\ lastOp' = "blank"
    /\ UNCHANGED <<lastText, width, param, frames, cuts, session, base, lifo, unordered>>
    /\ UNCHANGED notPrinter

\* a small heading that sets bold and nothing else
HeadingKwBoldOnly(large) ==
    IF large THEN [bold |-> TRUE, double_height |-> TRUE, double_width |-> TRUE]
    ELSE [bold |-> TRUE]

\* heading: self._set(bold=True, double_height=large, double_width=large)
HeadingKw(large) ==
    [bold |-> TRUE, double_height |-> large, double_width |-> large]

\* the blank line written whether or not the heading was printed
BlankAlways(large, raised) == large

\* heading: `if large: self.blank()`, reached when the with block returned
BlankAfter(large, raised) == large /\ ~raised

\* Printer.heading(s, large): the calls made, the exception and _param after
HeadingRun(kw, plan, large, F) ==
    LET tmp    == Snapshot(param, kw)
        merged == Update(param, kw)
        t      == TextRun(plan, F, 1)
        n      == 1 + Len(t.out)
        raised == (1 \in F) \/ t.exc # "none"
        back   == Restored(tmp, merged, kw, raised)
        okx    == (n + 1) \notin F
        exc2   == IF ~okx \/ 1 \in F THEN "DeviceError" ELSE t.exc
        blank  == BlankAfter(large, exc2 # "none")
    IN  [out |-> <<Call("set", merged, 1 \notin F)>>
                 \o (IF 1 \in F THEN <<>> ELSE t.out)
                 \o <<Call("set", back, IF 1 \in F THEN 2 \notin F ELSE okx)>>
                 \o (IF blank THEN <<Call("text", <<"\n">>, (n + 2) \notin F)>>
                     ELSE <<>>),
         exc |-> IF blank /\ (n + 2) \in F THEN "DeviceError" ELSE exc2,
         param |-> back]

Heading(s, large) ==
    /\ session = "body" /\ exc = "none"
    /\ \E kw \in {HeadingKw(large)} :
       \E plan \in {TextPlan(Update(param, kw), Append(s, "\n"), <<>>)} :
       \E F \in FailSets(Len(plan.writes) + 3) :
       \E r \in {HeadingRun(kw, plan, large, F)} :
          /\ Driver(r.out, F)
          /\ exc' = r.exc
          /\ param' = r.param
          \* self.text runs inside the with block, which a refused set
          \* never enters
          /\ lastText' = IF 1 \in F THEN lastText
                         ELSE [s |-> Append(s, "\n"), prefix |-> <<>>]
    /\ lastOp' = "heading"
    /\ UNCHANGED <<width, frames, cuts, session, base, lifo, unordered>>
    /\ UNCHANGED notPrinter

----------------------------------------------------------------------------
(* Printer.__exit__ *)

\* cut only when the body did not raise
CutsOnSuccessOnly(exc_type) == IF exc_type = "none" THEN 1 ELSE 0

\* self._printer.cut(): the number of cut commands __exit__ issues
ExitCuts(exc_type) == 1

\* __exit__ returns None: the exception of the body is not suppressed
ExitSuppresses(exc_type) == FALSE

PrinterExit(ok) ==
    /\ session = "body"
    /\ frames = <<>>
    /\ CanFail(IF ok THEN 0 ELSE 1)
    /\ fails' = fails + (IF ok THEN 0 ELSE 1)
    /\ cuts' = cuts + ExitCuts(exc)
    /\ lastCmd' = IF ExitCuts(exc) > 0 THEN "cut" ELSE lastCmd
    /\ failed' = (ExitCuts(exc) > 0 /\ ~ok)
    /\ exc' = IF failed' THEN "DeviceError"
              ELSE IF ExitSuppresses(exc) THEN "none" ELSE exc
    /\ session' = "left"
    /\ lastOp' = "printer_exit"
    /\ out' = IF ExitCuts(exc) > 0 THEN <<Call("cut", <<>>, ok)>> ELSE <<>>
    /\ UNCHANGED <<lastText, width, param, frames, devAttr, pushed, base, lifo, unordered>>
    /\ UNCHANGED notPrinter

----------------------------------------------------------------------------
(* Bucket.fetch *)

\* The elements: Item, Task and Event define no __eq__, so an item compares
\* equal to itself only.
Items == 1..MaxItems

Lists(S, n) == UNION {[1..k -> S] : k \in 0..n}

\* list.remove(item): the first element that compares equal to item goes
Remove(live, item) ==
    IF \E j \in 1..Len(live) : keyOf[live[j]] = keyOf[item]
    THEN LET j == Min({i \in 1..Len(live) : keyOf[live[i]] = keyOf[item]})
         IN  SubSeq(live, 1, j - 1) \o SubSeq(live, j + 1, Len(live))
    ELSE live

\* self.remove(item) left out
KeepInList(live, item) == live

\* self.remove(item)
Removed(live, item) == Remove(live, item)

\* `if not filter(item)`
Rejects(P, item) == item \notin P

\* filter(item)
Accepts(P, item) == item \in P

\* temp.insert(0, item)
Prepended(temp, item) == <<item>> \o temp

\* temp.append(item)
Appended(temp, item) == Append(temp, item)

\* `for item in self`: the loop reads the list it removes from
IteratedLive(live, snap) == live

\* `for item in self.copy()`
Iterated(live, snap) == snap

\* The loop of fetch, at position i of the list it iterates.
RECURSIVE FetchLoop(_, _, _, _, _, _)
FetchLoop(live, snap, i, temp, seen, P) ==
    IF i > Len(Iterated(live, snap))
    THEN [temp |-> temp, self |-> live, evals |-> seen]
    ELSE LET item == Iterated(live, snap)[i]
         IN  IF Accepts(P, item)
             THEN FetchLoop(Removed(live, item), snap, i + 1,
                            Appended(temp, item), Append(seen, item), P)
             ELSE FetchLoop(live, snap, i + 1, temp, Append(seen, item), P)

\* Bucket.fetch(filter), with filter(item) true for the items in P
Fetch(P) ==
    /\ \E r \in {FetchLoop(bucket, bucket, 1, <<>>, <<>>, P)} :
          /\ bucket' = r.self
          /\ matched' = r.temp
          /\ evals' = r.evals
    /\ orig' = bucket
    /\ pred' = P
    /\ bucketOp' = "fetch"
    /\ UNCHANGED keyOf
    /\ UNCHANGED notBucket

NoBucket ==
    /\ keyOf = [i \in Items |-> i]
    /\ bucket = <<>>
    /\ matched = <<>>
    /\ orig = <<>>
    /\ pred = {}
    /\ evals = <<>>
    /\ bucketOp = "init"

----------------------------------------------------------------------------
(* Event *)

\* The clock: a day has DayLen ticks, from 0 (datetime.min.time()) to MaxTime
\* (datetime.max.time(), the last tick before midnight).
DayLen == 2 * HalfDay

MaxTime == DayLen - 1

\* What a change to summer time puts the clocks forward by, and the step of
\* the offsets between time zones.
ZoneStep == HalfDay

\* A tzinfo: <<>> is None, <<o>> a zone that is o ticks ahead of the standard
\* time of the system's zone.
Offsets == {0 - ZoneStep, 0, ZoneStep}

TzInfos == {<<>>} \cup {<<o>> : o \in Offsets}

\* A datetime.datetime is a day, a time of day and a tzinfo (<<>> when it is
\* naive); a datetime.date is a day alone.
DateTimes == [kind : {"datetime"}, day : 0..MaxDay, time : 0..MaxTime, tz : TzInfos]

Dates == [kind : {"date"}, day : 0..MaxDay, time : {0}, tz : {<<>>}]

\* the wall clock reading of d, in ticks since the first tick of day 0
Lin(d) == d.day * DayLen + d.time

\* the datetime that reads w on the wall clock of the zone tz
At(w, tz) ==
    [kind |-> "datetime", day |-> w \div DayLen, time |-> w % DayLen, tz |-> tz]

\* the offset of the system's zone at the instant u, counted on the clock of
\* its standard time: summer time from the change on
LocalOffset(u) == IF zone = <<>> \/ u < zone[1] THEN 0 ELSE ZoneStep

\* the instant d stands for. A naive datetime is local time; a local time
\* that the change to summer time skips is taken as summer time.
Instant(d) ==
    IF d.tz # <<>> THEN Lin(d) - d.tz[1]
    ELSE IF zone = <<>> \/ Lin(d) < zone[1] THEN Lin(d)
    ELSE Lin(d) - ZoneStep

\* d.astimezone(tz=tzinfo): the same instant on the clock of tzinfo, or of
\* the system's zone when tzinfo is None
astimezone(d, tzinfo) ==
    LET u == Instant(d)
        o == IF tzinfo = <<>> THEN LocalOffset(u) ELSE tzinfo[1]
    IN  At(u + o, <<o>>)

\* datetime.datetime.combine(d, t)
combine(d, t) == [kind |-> "datetime", day |-> d.day, time |-> t, tz |-> <<>>]

\* Event.toDateTime(d, end, tzinfo): a datetime as it is, a date combined with
\* the first or the last time of the day, then moved to the zone
toDateTime(d, end, tzinfo) ==
    astimezone(IF d.kind = "datetime" THEN d
               ELSE combine(d, IF end THEN MaxTime ELSE 0),
               tzinfo)

\* Event._isToday(d): the date d reads in its own zone is today's
isToday(d) == d.day = today

\* datetime.date.today()
Today == [kind |-> "date", day |-> today, time |-> 0, tz |-> <<>>]

\* Event.timeToday(end, tzinfo)
timeToday(end, tzinfo) == toDateTime(Today, end, tzinfo)

\* Event.start
start(e) == IF isToday(e.start) THEN e.start ELSE timeToday(FALSE, <<>>)

\* Event.end
end(e) == IF isToday(e.end) THEN e.end ELSE timeToday(TRUE, <<>>)

NoValue == [kind |-> "none"]

\* all_day or not (_isToday(start) and _isToday(end))
allDayUnlessBothToday(s, e, all_day) == all_day \/ ~(isToday(s) /\ isToday(e))

\* Event.__init__: all_day or (not _isToday(start) and not _isToday(end))
allDay(s, e, all_day) == all_day \/ (~isToday(s) /\ ~isToday(e))

\* Event.__init__(name, start, end, all_day); born is the day it ran on
NewEvent(s, e, all_day) ==
    [start |-> s, end |-> e, flag |-> all_day,
     all_day |-> allDay(s, e, all_day), born |-> today]

ReadStart ==
    /\ ev # NoValue
    /\ startRead' = start(ev)
    /\ evOp' = "start"
    /\ UNCHANGED <<today, zone, ev, endRead>>
    /\ UNCHANGED notEvent

ReadEnd ==
    /\ ev # NoValue
    /\ endRead' = end(ev)
    /\ evOp' = "end"
    /\ UNCHANGED <<today, zone, ev, startRead>>
    /\ UNCHANGED notEvent

\* Midnight passes.
NextDay ==
    /\ today < MaxDay
    /\ today' = today + 1
    /\ evOp' = "tick"
    /\ UNCHANGED <<zone, ev, startRead, endRead>>
    /\ UNCHANGED notEvent

NoEvent ==
    /\ today = 0
    /\ zone = <<>>
    /\ ev = NoValue
    /\ startRead = NoValue
    /\ endRead = NoValue
    /\ evOp = "init"

----------------------------------------------------------------------------
(* template/default.py: printTemplate *)

\* class Priority(IntEnum)
VERYLOW == 1

LOW == 2

MEDIUM == 3

HIGH == 4

VERYHIGH == 5

\* datetime.date.max, as a day number
DateMax == 9999

\* lambda t: t.due if t.due else datetime.date.max
dueKey(i) == IF attrs[i].due = <<>> THEN DateMax ELSE attrs[i].due[1]

\* lambda t: t.priority if t.priority else zettel.Priority.MEDIUM
priorityKey(i) == IF attrs[i].priority = <<>> THEN MEDIUM ELSE attrs[i].priority[1]

\* list.sort(key=..., reverse=...): stable, also when reversed. Insert x into
\* the sorted list l behind everything that does not come after it.
\* key[i] is the key of item i.
RECURSIVE InsertBy(_, _, _, _)
InsertBy(l, x, key, reverse) ==
    IF l = <<>> THEN <<x>>
    ELSE IF (IF reverse THEN key[Head(l)] >= key[x] ELSE key[Head(l)] <= key[x])
         THEN <<Head(l)>> \o InsertBy(Tail(l), x, key, reverse)
         ELSE <<x>> \o l

RECURSIVE SortBy(_, _, _)
SortBy(l, key, reverse) ==
    IF l = <<>> THEN <<>>
    ELSE InsertBy(SortBy(SubSeq(l, 1, Len(l) - 1), key, reverse),
                  l[Len(l)], key, reverse)

\* the two sorts in the other order
TwoSortsDueLast(l) ==
    SortBy(SortBy(l, [i \in DOMAIN attrs |-> priorityKey(i)], TRUE),
           [i \in DOMAIN attrs |-> dueKey(i)], FALSE)

\* tasks.sort(key=due); tasks.sort(key=priority, reverse=True)
TwoSorts(l) ==
    SortBy(SortBy(l, [i \in DOMAIN attrs |-> dueKey(i)], FALSE),
           [i \in DOMAIN attrs |-> priorityKey(i)], TRUE)

\* every item taken for a task
isItem(i) == TRUE

\* lambda i: isinstance(i, zettel.Task)
isTask(i) == attrs[i].kind = "task"

\* due today counted as overdue
isDue(i) == attrs[i].due # <<>> /\ attrs[i].due[1] <= today

\* lambda t: bool(t.due and t.due < datetime.date.today())
isOverdue(i) == attrs[i].due # <<>> /\ attrs[i].due[1] < today

\* lambda t: (t.due == datetime.date.today())
isDueToday(i) == attrs[i].due = <<today>>

\* the section printed whether or not it has tasks
Always(l) == TRUE

\* `if tasks:` and `if matches:`: a Bucket is true when it has elements
NonEmpty(l) == l # <<>>

\* a call of the printer: op(title or item's name, large or checkbox)
PCall(op, title, item, flag) ==
    [op |-> op, title |-> title, item |-> item, flag |-> flag]

\* p.listItem(t.name, checkbox=False) for t in l
ListItems(l) == [k \in 1..Len(l) |-> PCall("listItem", "", l[k], FALSE)]

\* print_tasks listing the matching tasks without taking them from the list
print_tasks_unclaimed(l, P, title) ==
    LET r == FetchLoop(l, l, 1, <<>>, <<>>, P)
    IN  [tasks |-> l,
         calls |-> IF ~NonEmpty(r.temp) THEN <<>>
                   ELSE <<PCall("enter", "underline", 0, FALSE),
                          PCall("heading", title, 0, FALSE),
                          PCall("exit", "underline", 0, FALSE)>>
                        \o ListItems(r.temp)
                        \o <<PCall("blank", "", 0, FALSE)>>]

\* print_tasks(filter, title) on the tasks l, P the tasks the filter accepts:
\* the tasks left and the calls made
print_tasks(l, P, title) ==
    LET r == FetchLoop(l, l, 1, <<>>, <<>>, P)
    IN  [tasks |-> r.self,
         calls |-> IF ~NonEmpty(r.temp) THEN <<>>
                   ELSE <<PCall("enter", "underline", 0, FALSE),
                          PCall("heading", title, 0, FALSE),
                          PCall("exit", "underline", 0, FALSE)>>
                        \o ListItems(r.temp)
                        \o <<PCall("blank", "", 0, FALSE)>>]

\* the header printTemplate prints first
Header ==
    <<PCall("enter", "center", 0, FALSE), PCall("text", "now", 0, FALSE),
      PCall("blank", "", 0, FALSE), PCall("exit", "center", 0, FALSE)>>

\* printTemplate(bucket, p, lang)
printTemplate ==
    /\ \E f \in {FetchLoop(items, items, 1, <<>>, <<>>,
                           {i \in DOMAIN attrs : isTask(i)})} :
       \E st \in {TwoSorts(f.temp)} :
       \E o \in {print_tasks(st, {i \in DOMAIN attrs : isOverdue(i)},
                             "tasks_overdue")} :
       \E t \in {print_tasks(o.tasks, {i \in DOMAIN attrs : isDueToday(i)},
                             "tasks_today")} :
          /\ items' = f.self
          /\ sorted' = IF ~NonEmpty(f.temp) THEN f.temp ELSE st
          /\ tasks' = IF ~NonEmpty(f.temp) THEN f.temp ELSE t.tasks
          /\ printed' = IF ~NonEmpty(f.temp) THEN Header
                        ELSE Header
                             \o <<PCall("enter", "center", 0, FALSE),
                                  PCall("heading", "tasks", 0, TRUE),
                                  PCall("exit", "center", 0, FALSE)>>
                             \o o.calls \o t.calls \o ListItems(t.tasks)
    /\ given' = items
    /\ tplOp' = "printed"
    /\ UNCHANGED attrs
    /\ UNCHANGED eventVars
    /\ UNCHANGED notTemplate

NoTemplate ==
    /\ attrs = <<>>
    /\ items = <<>>
    /\ given = <<>>
    /\ sorted = <<>>
    /\ tasks = <<>>
    /\ printed = <<>>
    /\ tplOp = "new"

----------------------------------------------------------------------------
(* The providers' priority conversions *)

\* Priority[name]: the members of the enum by name
PriorityNames ==
    [VERYLOW |-> VERYLOW, LOW |-> LOW, MEDIUM |-> MEDIUM, HIGH |-> HIGH,
     VERYHIGH |-> VERYHIGH]

\* a backend value: a str or an int
StrValue(name) == [isStr |-> TRUE, name |-> name, num |-> 0]

IntValue(num) == [isStr |-> FALSE, name |-> "", num |-> num]

Returned(v) == [exc |-> "none", value |-> v]

Raised(e) == [exc |-> e, value |-> <<>>]

\* dict.get(key): <<>> is None
Get(d, key) == IF key \in DOMAIN d THEN <<d[key]>> ELSE <<>>

\* AbstractProvider._convertPriority(src)
_convertPriority(src) ==
    IF src.isStr
    THEN IF src.name \in DOMAIN PriorityNames
         THEN Returned(<<PriorityNames[src.name]>>) ELSE Raised("KeyError")
    ELSE IF src.num \in VERYLOW..VERYHIGH
         THEN Returned(<<src.num>>) ELSE Raised("ValueError")

\* exchange.Provider._parsePriority(name)
exchangeParsePriority(name) ==
    Returned(Get([Low |-> LOW, Normal |-> MEDIUM, High |-> HIGH], name))

\* jira.Provider._parsePriority(name)
jiraParsePriority(name) == Returned(Get(priorities, name))

\* caldav.Provider: {1: HIGH, 2: MEDIUM, 3: LOW}.get(task.get('PRIORITY'))
caldavPriority(num) ==
    Returned(IF num = 1 THEN <<HIGH>> ELSE IF num = 2 THEN <<MEDIUM>>
             ELSE IF num = 3 THEN <<LOW>> ELSE <<>>)

Converted(by, src, result) ==
    /\ convBy' = by
    /\ convSrc' = src
    /\ convOut' = result
    /\ UNCHANGED priorities
    /\ UNCHANGED notProvider

ConvertPriority(src) == Converted("_convertPriority", src, _convertPriority(src))

ExchangeParsePriority(name) ==
    Converted("exchange", StrValue(name), exchangeParsePriority(name))

JiraParsePriority(name) ==
    Converted("jira", StrValue(name), jiraParsePriority(name))

CaldavPriority(num) == Converted("caldav", IntValue(num), caldavPriority(num))

NoProvider ==
    /\ priorities = <<>>
    /\ convBy = "none"
    /\ convSrc = StrValue("")
    /\ convOut = Returned(<<>>)

----------------------------------------------------------------------------
(* The printer *)

\* Printer.__init__
NewPrinterOf(w) ==
    /\ width = w
    /\ out = <<>>
    /\ param = EmptyDict
    /\ frames = <<>>
    /\ devAttr = EmptyDict
    /\ pushed = <<>>
    /\ lastCmd = "none"
    /\ cuts = 0
    /\ exc = "none"
    /\ session = "body"
    /\ lastOp = "init"
    /\ failed = FALSE
    /\ base = EmptyDict
    /\ lifo = TRUE
    /\ fails = 0
    /\ unordered = 0
    /\ lastText = [s |-> <<>>, prefix |-> <<>>]

NewPrinter == NewPrinterOf(MaxWidth)

InitPrinter == NewPrinter /\ NoBucket /\ NoEvent /\ NoTemplate /\ NoProvider

\* The strings printed while the scopes are exercised.
PrinterTexts == {<<>>, <<"a", "a", " ", "a">>, <<"a", "a", "a">>}

PrinterPrefixes == {<<"-">>}

\* The printer used through `with` statements: scopes end innermost first.
NextPrinter ==
    \/ \E kw \in ScopeKw, ok1, ok2 \in BOOLEAN : SetEnter(kw, ok1, ok2)
    \/ \E ok \in BOOLEAN : SetExit(ok)
    \/ Catch
    \/ \E s \in PrinterTexts, prefix \in PrinterPrefixes : Text(s, prefix)
    \/ \E s \in PrinterTexts, checkbox \in BOOLEAN : ListItem(s, checkbox)
    \/ Blank
    \/ \E s \in PrinterTexts, large \in BOOLEAN : Heading(s, large)
    \/ \E ok \in BOOLEAN : PrinterExit(ok)

SpecPrinter == InitPrinter /\ [][NextPrinter]_vars

\* The context manager objects entered and closed by hand, in any order.
\* The backend driver accepts every call here.
NextScopes ==
    \/ \E kw \in ScopeKw : SetEnter(kw, TRUE, TRUE)
    \/ SetExit(TRUE)
    \/ \E i \in 1..MaxDepth : SetExitOutOfOrder(i, TRUE)

SpecScopes == InitPrinter /\ [][NextScopes]_vars

----------------------------------------------------------------------------
(* Printing text: printers of every width, text and list items printed     *)
(* directly and inside double-width scopes                                 *)

InitText ==
    /\ \E w \in 1..MaxTextWidth : NewPrinterOf(w)
    /\ NoBucket /\ NoEvent /\ NoTemplate /\ NoProvider

TextTexts ==
    {<<>>, <<" ">>, <<"a">>, <<"a", "a">>, <<"a", " ", "a">>,
     <<"a", "a", " ", "a">>, <<"a", "a", "a">>, <<"a", "\n", "a", "a", " ", "a">>}

TextPrefixes == {<<>>, <<"-">>, <<"*", " ", "*", " ">>}

NextText ==
    \/ \E kw \in SetKw : SetEnter(kw, TRUE, TRUE)
    \/ SetExit(TRUE)
    \/ Catch
    \/ \E s \in TextTexts, prefix \in TextPrefixes : Text(s, prefix)
    \/ \E s \in TextTexts, checkbox \in BOOLEAN : ListItem(s, checkbox)

SpecText == InitText /\ [][NextText]_vars

----------------------------------------------------------------------------
(* The bucket *)

InitBucket ==
    /\ keyOf = [i \in Items |-> i]
    /\ bucket \in Lists(Items, MaxLen)
    /\ matched = <<>>
    /\ orig = bucket
    /\ pred = {}
    /\ evals = <<>>
    /\ bucketOp = "init"
    /\ NewPrinter /\ NoEvent /\ NoTemplate /\ NoProvider

NextBucket ==
    \E P \in SUBSET Items : Fetch(P)

SpecBucket == InitBucket /\ [][NextBucket]_vars

\* A bucket of elements whose __eq__ is by value: the elements from k on
\* compare equal to each other, and they are distinct objects.
InitBucketEqual ==
    /\ \E k \in Items : keyOf = [i \in Items |-> Min({i, k})]
    /\ bucket \in Lists(Items, MaxLen)
    /\ matched = <<>>
    /\ orig = bucket
    /\ pred = {}
    /\ evals = <<>>
    /\ bucketOp = "init"
    /\ NewPrinter /\ NoEvent /\ NoTemplate /\ NoProvider

SpecBucketEqual == InitBucketEqual /\ [][NextBucket]_vars

----------------------------------------------------------------------------
(* The event *)

\* The system's zone keeps one time, or puts its clocks forward at the
\* midnight that begins day 1, or so that they skip the end of day 1.
Zones == {<<>>, <<DayLen>>, <<2 * DayLen - ZoneStep>>}

\* The endpoints a provider hands over: naive, or in the zone of the
\* system's standard time; or dates.
RawZones == {<<>>, <<0>>}

Endpoints(tz) == {d \in DateTimes : d.tz = tz} \cup Dates

InitEvent ==
    /\ today \in 0..MaxDay
    /\ zone \in Zones
    /\ \E tz \in RawZones : \E s, e \in Endpoints(tz), all_day \in BOOLEAN :
          ev = NewEvent(s, e, all_day)
    /\ startRead = NoValue
    /\ endRead = NoValue
    /\ evOp = "new"
    /\ NewPrinter /\ NoBucket /\ NoTemplate /\ NoProvider

NextEvent ==
    \/ ReadStart
    \/ ReadEnd
    \/ NextDay

SpecEvent == InitEvent /\ [][NextEvent]_vars

----------------------------------------------------------------------------
(* The template: buckets of tasks and events, as the providers fill them   *)

Priorities == {<<>>, <<LOW>>, <<MEDIUM>>, <<HIGH>>}

Dues == {<<>>, <<0>>, <<1>>, <<2>>}

Shapes ==
    [kind : {"task"}, priority : Priorities, due : Dues]
    \cup {[kind |-> "event", priority |-> <<>>, due |-> <<>>]}

InitTemplate ==
    /\ \E l \in Lists(Shapes, MaxItems) :
          /\ attrs = l
          /\ items = [i \in 1..Len(l) |-> i]
          /\ given = items
    /\ sorted = <<>>
    /\ tasks = <<>>
    /\ printed = <<>>
    /\ tplOp = "new"
    /\ today = 1
    /\ zone = <<>>
    /\ ev = NoValue /\ startRead = NoValue /\ endRead = NoValue /\ evOp = "init"
    /\ NewPrinter /\ NoBucket /\ NoProvider

NextTemplate == printTemplate

SpecTemplate == InitTemplate /\ [][NextTemplate]_vars

----------------------------------------------------------------------------
(* The priority conversions, given known and unknown backend values        *)

BackendNames ==
    {"VERYLOW", "LOW", "MEDIUM", "HIGH", "VERYHIGH", "Low", "Normal", "High",
     "low", "Blocker", ""}

BackendNumbers == (VERYLOW - 1)..(VERYHIGH + 1)

InitProvider ==
    /\ priorities \in {<<>>, [Blocker |-> VERYHIGH],
                       [Blocker |-> HIGH, Low |-> VERYLOW]}
    /\ convBy = "none"
    /\ convSrc = StrValue("")
    /\ convOut = Returned(<<>>)
    /\ NewPrinter /\ NoBucket /\ NoEvent /\ NoTemplate

NextProvider ==
    \/ \E name \in BackendNames : ConvertPriority(StrValue(name))
    \/ \E num \in BackendNumbers : ConvertPriority(IntValue(num))
    \/ \E name \in BackendNames : ExchangeParsePriority(name)
    \/ \E name \in BackendNames : JiraParsePriority(name)
    \/ \E num \in BackendNumbers : CaldavPriority(num)

SpecProvider == InitProvider /\ [][NextProvider]_vars

----------------------------------------------------------------------------
(* Claims about the scoped modifiers and the printing context *)

\* C1: whenever a scope ends, innermost first, with or without an exception
\* passing through it, _param is again what it was before that scope was
\* entered, and that dictionary is the last one handed to the backend
\* driver; a scope whose entry push fails leaves _param as it found it.
C1_ExitRestoresSnapshot ==
    [][/\ lastOp' = "exit" =>
            /\ param' = frames[Len(frames)].entry
            /\ pushed' = <<param'>>
       /\ lastOp' = "enter_failed" =>
            /\ param' = param
            /\ pushed' = <<param>>]_vars

\* an exception has just left an inner scope whose restore went through
C1_Witness ==
    /\ lastOp = "exit" /\ exc # "none" /\ ~failed
    /\ Len(frames) >= 1
    /\ param = Update(frames[Len(frames)].entry, frames[Len(frames)].kw)

\* C2 as stated: once every scope has ended, in whatever order, _param and
\* the last dictionary handed to the driver are what was active before the
\* first scope was entered.
C2_AnyOrderRestores ==
    (frames = <<>> /\ pushed # <<>>) => (param = base /\ pushed = <<base>>)

\* C2 as amended: the same, for scopes that ended innermost first.
C2_NestedOrderRestores ==
    (frames = <<>> /\ lifo /\ pushed # <<>>) => (param = base /\ pushed = <<base>>)

\* nested scopes have all ended, over a non-empty outer parameter set
C2_Witness ==
    /\ frames = <<>> /\ lifo /\ lastOp = "exit"
    /\ base # EmptyDict /\ param = base

\* C3: an operation in which a backend call failed ends raising; no printer
\* operation ends a propagating exception (only the caller's handler does);
\* and a scope the exception leaves has restored _param first.
C3_FailurePropagates ==
    /\ [](failed => exc # "none")
    /\ [][/\ (exc # "none" /\ exc' = "none") => lastOp' = "catch"
          /\ (lastOp' = "exit" /\ exc' # "none") =>
                param' = frames[Len(frames)].entry
          /\ (lastOp' = "heading" /\ exc' # "none") => param' = param]_vars

\* a failure raised inside a scope has left the outermost scope, restored
C3_Witness ==
    /\ lastOp = "exit" /\ exc = "DeviceError" /\ ~failed
    /\ frames = <<>> /\ param = base /\ fails > 0

\* C4 as stated: where an enclosing scope has caught the error and goes on,
\* _param is the parameter set the backend driver accepted last.
C4_ShadowMatchesDevice ==
    (lastOp = "catch" /\ frames # <<>>) => param = devAttr

\* C5: once the printing context is left there has been exactly one cut, it
\* is the last command the backend driver got, and an exception of the body
\* is still propagating.
C5_CutOnEveryExit ==
    /\ [](session = "left" => (cuts = 1 /\ lastCmd = "cut"))
    /\ [][(session = "body" /\ session' = "left" /\ exc # "none")
            => exc' # "none"]_vars

\* the context was left by an exception of the body, and the cut went through
C5_Witness ==
    session = "left" /\ exc # "none" /\ ~failed /\ cuts = 1 /\ fails > 0

----------------------------------------------------------------------------
(* Claims about Bucket.fetch *)

Count(list, x) == Cardinality({i \in 1..Len(list) : list[i] = x})

ElemsOf(list) == {list[i] : i \in 1..Len(list)}

RECURSIVE IsSubseq(_, _)
IsSubseq(a, b) ==
    IF a = <<>> THEN TRUE
    ELSE IF b = <<>> THEN FALSE
    ELSE IF Head(a) = Head(b) THEN IsSubseq(Tail(a), Tail(b))
    ELSE IsSubseq(a, Tail(b))

\* C6: after fetch, the returned bucket and what is left in the receiver
\* together hold every element of the original bucket as often as the
\* original held it, and no element is in both.
C6_FetchPartitions ==
    bucketOp = "fetch" =>
        /\ \A x \in Items : Count(matched, x) + Count(bucket, x) = Count(orig, x)
        /\ ElemsOf(matched) \cap ElemsOf(bucket) = {}

\* a fetch that split a bucket holding one item twice and another item
C6_Witness ==
    /\ bucketOp = "fetch"
    /\ matched # <<>>
    /\ bucket # <<>>
    /\ \E x \in Items : Count(orig, x) = 2 /\ Count(matched, x) = 2
    /\ Len(orig) = MaxLen

\* C7: after fetch, the filter holds for every element of the returned bucket
\* and for no element left in the receiver.
C7_FetchSeparates ==
    bucketOp = "fetch" =>
        /\ \A i \in 1..Len(matched) : matched[i] \in pred
        /\ \A i \in 1..Len(bucket) : bucket[i] \notin pred

\* a fetch whose filter accepted some of the elements and rejected others
C7_Witness ==
    /\ bucketOp = "fetch"
    /\ ElemsOf(orig) \cap pred # {}
    /\ ElemsOf(orig) \ pred # {}
    /\ Len(matched) >= 2
    /\ Len(bucket) = 1

\* C8: the returned bucket and the receiver each keep their elements in the
\* order the original bucket had them.
C8_FetchKeepsOrder ==
    bucketOp = "fetch" => (IsSubseq(matched, orig) /\ IsSubseq(bucket, orig))

\* a fetch that took the first and third of four elements
C8_Witness ==
    /\ bucketOp = "fetch"
    /\ Len(orig) = 4
    /\ orig[1] \in pred /\ orig[2] \notin pred
    /\ orig[3] \in pred /\ orig[4] \notin pred
    /\ orig[1] # orig[3]
    /\ matched = <<orig[1], orig[3]>>
    /\ bucket = <<orig[2], orig[4]>>

\* C9: fetch calls the filter once for each element of the bucket as it was
\* when fetch was called, in order, whatever it removes on the way.
C9_FetchTestsSnapshot == bucketOp = "fetch" => evals = orig

\* a fetch that removed an element which another element followed
C9_Witness ==
    /\ bucketOp = "fetch"
    /\ \E i \in 1..(Len(orig) - 1) : orig[i] \in pred /\ orig[i + 1] \notin pred
    /\ Len(evals) = Len(orig)
    /\ Len(bucket) < Len(orig)

----------------------------------------------------------------------------
(* Claims about the Event *)

\* C10: the start and the end an Event exposes lie on today: a raw endpoint
\* on today is returned as it is, any other start becomes today's midnight
\* and any other end becomes the last instant of today, in whatever time zone
\* the system is.
C10_EndpointsClampedToToday ==
    /\ evOp = "start" =>
          /\ startRead.day = today
          /\ ev.start.day = today => startRead = ev.start
          /\ ev.start.day # today =>
                (startRead.kind = "datetime" /\ startRead.time = 0)
    /\ evOp = "end" =>
          /\ endRead.day = today
          /\ ev.end.day = today => endRead = ev.end
          /\ ev.end.day # today =>
                (endRead.kind = "datetime" /\ endRead.time = MaxTime)

\* C11: an Event's all_day is true exactly when the constructor's flag was
\* true or neither raw endpoint lay on the day the Event was constructed.
C11_AllDayFlagOrNoEndpointToday ==
    /\ ev.all_day = (ev.flag \/ (ev.start.day # ev.born /\ ev.end.day # ev.born))
    /\ (ev.start.day # ev.born /\ ev.end.day # ev.born) => ev.all_day
    /\ (~ev.flag /\ (ev.start.day = ev.born \/ ev.end.day = ev.born)) => ~ev.all_day

\* an unflagged event that began before the day it was constructed on and
\* ends on that day, and is not all-day
C11_Witness ==
    /\ evOp = "new"
    /\ ~ev.flag
    /\ ev.start.day < today
    /\ ev.end.day = today
    /\ ~ev.all_day

\* C24: whenever start or end is read, all_day is true exactly when the flag
\* was given or neither raw endpoint lies on the day the read clamps to, also
\* when that day is later than the day the Event was constructed on: never
\* false with both exposed endpoints clamped, never true, without the flag,
\* with a raw endpoint on the current day.
C24_AllDayRefersToDayOfRead ==
    evOp \in {"start", "end"} =>
        /\ ev.all_day = (ev.flag \/ (~isToday(ev.start) /\ ~isToday(ev.end)))
        /\ (start(ev) # ev.start /\ end(ev) # ev.end) => ev.all_day
        /\ (~ev.flag /\ (isToday(ev.start) \/ isToday(ev.end))) => ~ev.all_day

----------------------------------------------------------------------------
(* Claims about text and listItem *)

\* what the device was handed as text, as one string
Max(S) == CHOOSE x \in S : \A y \in S : y <= x

RECURSIVE Stream(_)
Stream(calls) ==
    IF calls = <<>> THEN <<>>
    ELSE (IF Head(calls).cmd = "text" THEN Head(calls).arg ELSE <<>>)
         \o Stream(Tail(calls))

RECURSIVE Indented(_, _)
Indented(n, ls) ==
    IF ls = <<>> THEN <<>>
    ELSE [i \in 1..n |-> " "] \o Head(ls) \o <<"\n">> \o Indented(n, Tail(ls))

\* twice the width text() wraps s to, under the parameters p
Avail2(p, prefix) ==
    (IF DoubleWidth(p) THEN width ELSE 2 * width) - 2 * Len(prefix)

WrappedLast == wrap(lastText.s, Avail2(param, lastText.prefix), DoubleWidth(param)).lines

NewLines(str) == Cardinality({i \in 1..Len(str) : str[i] = "\n"})

\* C12: a call of text that completes has written the prefix, the first
\* wrapped line and a newline, then every further wrapped line behind as many
\* spaces as the prefix is long; listItem does so with the prefix "- " or
\* "[ ] ".
C12_ContinuationIndent ==
    (lastOp \in {"text", "listItem"} /\ exc = "none") =>
        /\ WrappedLast # <<>>
        /\ Stream(out) = lastText.prefix \o Head(WrappedLast) \o <<"\n">>
                         \o Indented(Len(lastText.prefix), Tail(WrappedLast))
        /\ lastOp = "listItem" =>
              lastText.prefix \in {<<"-", " ">>, <<"[", " ", "]", " ">>}

\* a checkbox list item of two lines on a printer of width 6: the second line
\* stands behind four spaces
C12_Witness ==
    /\ lastOp = "listItem"
    /\ exc = "none"
    /\ width = 6
    /\ Len(WrappedLast) = 2
    /\ Stream(out) = <<"[", " ", "]", " ", "a", "a", "\n",
                       " ", " ", " ", " ", "a", "\n">>

\* C13: a call of text with a string no longer than the width available to
\* it completes and writes one line, whatever the string is.
C13_ShortTextOneLine ==
    (/\ lastOp \in {"text", "listItem"}
     /\ ~failed
     /\ Avail2(param, lastText.prefix) > 0
     /\ 2 * Len(lastText.s) <= Avail2(param, lastText.prefix)) =>
        (exc = "none" /\ NewLines(Stream(out)) = 1)

\* the lines of a written string, each without its newline
RECURSIVE Rows(_, _)
Rows(str, cur) ==
    IF str = <<>> THEN (IF cur = <<>> THEN <<>> ELSE <<cur>>)
    ELSE IF Head(str) = "\n" THEN <<cur>> \o Rows(Tail(str), <<>>)
    ELSE Rows(Tail(str), Append(cur, Head(str)))

\* C21: a call of text with a string that has something to print completes,
\* and no line it writes is longer, behind the prefix or the indentation,
\* than the columns available: the width, or half of it under double width,
\* less the length of the prefix; longer words are split.
C21_LinesFitWidth ==
    (/\ lastOp \in {"text", "listItem"}
     /\ ~failed
     /\ Avail2(param, lastText.prefix) >= 2
     /\ \E k \in 1..Len(lastText.s) : lastText.s[k] = "a") =>
        /\ exc = "none"
        /\ \A k \in 1..Len(Rows(Stream(out), <<>>)) :
              2 * (Len(Rows(Stream(out), <<>>)[k]) - Len(lastText.prefix))
                <= Avail2(param, lastText.prefix)

\* the open scopes that set attribute k, outermost first
SettersOf(k) == {i \in 1..Len(frames) : k \in DOMAIN frames[i].kw}

\* C22: an attribute set by a scope that is still open is active, with the
\* value given by the innermost open scope that set it, whatever scopes of
\* the same attribute were entered and left inside it, heading's own scope
\* included; it goes only with the outermost scope that set it.
C22_OuterScopeKeepsAttribute ==
    \A k \in {"align", "bold", "underline", "invert", "double_width"} :
        SettersOf(k) # {} =>
            /\ k \in DOMAIN param
            /\ param[k] = frames[Max(SettersOf(k))].kw[k]

\* a heading, which sets bold itself, has ended inside an open bold scope
C22_Witness ==
    /\ lastOp = "heading" /\ exc = "none"
    /\ frames # <<>>
    /\ "bold" \in DOMAIN frames[Len(frames)].kw
    /\ \E i \in 1..Len(out) :
          out[i].cmd = "set" /\ out[i].arg = param /\ i > 1

\* C23: after fetch, the receiver holds exactly the instances the filter
\* rejected, each where the original order had it, and the result exactly the
\* instances it accepted, also when other elements compare equal to them.
C23_FetchRemovesInstances ==
    bucketOp = "fetch" =>
        /\ matched = SelectSeq(orig, LAMBDA x : x \in pred)
        /\ bucket = SelectSeq(orig, LAMBDA x : x \notin pred)

----------------------------------------------------------------------------
(* Claims about printTemplate *)

\* the priority a task is ordered by
PriorityOf(i) == IF attrs[i].priority = <<>> THEN MEDIUM ELSE attrs[i].priority[1]

\* a is due no later than b, no due date being later than every due date
DueNoLater(a, b) ==
    \/ attrs[b].due = <<>>
    \/ attrs[a].due # <<>> /\ attrs[a].due[1] <= attrs[b].due[1]

\* C14: after the two sorts a task stands before another only if its
\* priority is higher, or the priorities are equal and it is due no later;
\* no priority counts as MEDIUM and no due date as later than every date.
C14_SortedByPriorityThenDue ==
    tplOp = "printed" =>
        \A j \in 1..Len(sorted) : \A k \in (j + 1)..Len(sorted) :
            \/ PriorityOf(sorted[j]) > PriorityOf(sorted[k])
            \/ /\ PriorityOf(sorted[j]) = PriorityOf(sorted[k])
               /\ DueNoLater(sorted[j], sorted[k])

\* LOW/tomorrow, HIGH/yesterday, HIGH/today come out as HIGH/yesterday,
\* HIGH/today, LOW/tomorrow
C14_Witness ==
    /\ tplOp = "printed"
    /\ attrs = <<[kind |-> "task", priority |-> <<LOW>>, due |-> <<today + 1>>],
                 [kind |-> "task", priority |-> <<HIGH>>, due |-> <<today - 1>>],
                 [kind |-> "task", priority |-> <<HIGH>>, due |-> <<today>>]>>
    /\ given = <<1, 2, 3>>
    /\ sorted = <<2, 3, 1>>

\* the elements of l that are in S, in their order
Filter(l, S) == SelectSeq(l, LAMBDA i : i \in S)

IsListItem(c) == c.op = "listItem"

IsBlank(c) == c.op = "blank"

\* the positions of the calls heading(title, large)
HeadingAt(title, large) ==
    {k \in 1..Len(printed) : printed[k] = PCall("heading", title, 0, large)}

\* the names of the list items printed at the positions from..to
RECURSIVE NamesIn(_, _)
NamesIn(from, to) ==
    IF from > to THEN <<>>
    ELSE (IF IsListItem(printed[from]) THEN <<printed[from].item>> ELSE <<>>)
         \o NamesIn(from + 1, to)

\* the names listed under the heading at position h, up to the blank line
\* that ends its section
SectionAt(h) ==
    NamesIn(h, Min({k \in h..Len(printed) : IsBlank(printed[k])}))

LastBlank == Max({k \in 1..Len(printed) : IsBlank(printed[k])})

DueBeforeToday ==
    {i \in DOMAIN attrs : attrs[i].due # <<>> /\ attrs[i].due[1] < today}

DueOnToday ==
    {i \in DOMAIN attrs : attrs[i].due # <<>> /\ attrs[i].due[1] = today}

DueLaterOrNever ==
    {i \in DOMAIN attrs : attrs[i].due = <<>> \/ attrs[i].due[1] > today}

\* C15: printTemplate lists under "overdue" the tasks due before today,
\* then under "today" the tasks due today, then without a heading the tasks
\* due later or never, each group in the order the sorts left.
C15_SectionsInOrder ==
    tplOp = "printed" =>
        /\ NamesIn(1, Len(printed))
             = Filter(sorted, DueBeforeToday) \o Filter(sorted, DueOnToday)
               \o Filter(sorted, DueLaterOrNever)
        /\ \A h \in HeadingAt("tasks_overdue", FALSE) :
              SectionAt(h) = Filter(sorted, DueBeforeToday)
        /\ \A h \in HeadingAt("tasks_today", FALSE) :
              /\ SectionAt(h) = Filter(sorted, DueOnToday)
              /\ \A o \in HeadingAt("tasks_overdue", FALSE) : o < h
        /\ NamesIn(LastBlank, Len(printed)) = Filter(sorted, DueLaterOrNever)

\* an overdue task, a task due today and a later task, each in its section
C15_Witness ==
    /\ tplOp = "printed"
    /\ Len(sorted) = 3
    /\ \E h \in HeadingAt("tasks_overdue", FALSE) : Len(SectionAt(h)) = 1
    /\ \E h \in HeadingAt("tasks_today", FALSE) : Len(SectionAt(h)) = 1
    /\ Len(NamesIn(LastBlank, Len(printed))) = 1

\* the tasks of the bucket handed in
GivenTasks == Filter(given, {i \in DOMAIN attrs : attrs[i].kind = "task"})

\* C16: the "tasks" heading is printed exactly when the bucket holds a task,
\* the "overdue" heading exactly when a task is overdue and the "today"
\* heading exactly when a task is due today; without tasks only the date
\* header is printed.
C16_EmptySectionsOmitted ==
    tplOp = "printed" =>
        /\ HeadingAt("tasks", TRUE) # {} <=> GivenTasks # <<>>
        /\ HeadingAt("tasks_overdue", FALSE) # {}
             <=> Filter(GivenTasks, DueBeforeToday) # <<>>
        /\ HeadingAt("tasks_today", FALSE) # {}
             <=> Filter(GivenTasks, DueOnToday) # <<>>
        /\ GivenTasks = <<>> => printed = Header

\* a bucket of tasks none of which is overdue, one of them due today
C16_Witness ==
    /\ tplOp = "printed"
    /\ Len(GivenTasks) = 2
    /\ HeadingAt("tasks", TRUE) # {}
    /\ HeadingAt("tasks_overdue", FALSE) = {}
    /\ HeadingAt("tasks_today", FALSE) # {}

\* C17 as stated: after printTemplate the bucket handed in is empty.
C17_BucketEmptied == tplOp = "printed" => items = <<>>

\* C17: after printTemplate the bucket handed in holds no task; the items
\* that are no tasks stay in it, in their order.
C17_TasksTakenOthersStay ==
    tplOp = "printed" =>
        items = Filter(given, {i \in DOMAIN attrs : attrs[i].kind # "task"})

\* a bucket of an event between two tasks, of which the event is left
C17_Witness ==
    /\ tplOp = "printed"
    /\ Len(given) = 3
    /\ Len(GivenTasks) = 2
    /\ items = <<2>>

\* the positions of the listItem calls that print item i
ListItemAt(i) ==
    {k \in 1..Len(printed) : IsListItem(printed[k]) /\ printed[k].item = i}

\* C25: printTemplate calls listItem exactly once for every task of the
\* bucket, with the task's name and checkbox=False, in whichever section the
\* task falls, and calls it for nothing else.
C25_EachTaskListedOnce ==
    tplOp = "printed" =>
        /\ \A i \in DOMAIN attrs :
              Cardinality(ListItemAt(i)) = Count(GivenTasks, i)
        /\ \A k \in 1..Len(printed) :
              IsListItem(printed[k]) =>
                  printed[k] = PCall("listItem", "", printed[k].item, FALSE)

\* an overdue task, a task due today and a task due later were each listed,
\* under two section headings and in the remainder
C25_Witness ==
    /\ tplOp = "printed"
    /\ Len(GivenTasks) = 3
    /\ Filter(GivenTasks, DueBeforeToday) # <<>>
    /\ Filter(GivenTasks, DueOnToday) # <<>>
    /\ Filter(GivenTasks, DueLaterOrNever) # <<>>
    /\ HeadingAt("tasks_overdue", FALSE) # {}
    /\ HeadingAt("tasks_today", FALSE) # {}
    /\ \A i \in 1..3 : Cardinality(ListItemAt(i)) = 1

----------------------------------------------------------------------------
(* Claims about the providers *)

\* the Priority a backend value stands for, <<>> if it stands for none
Counterpart ==
    IF convBy = "_convertPriority"
    THEN IF convSrc.isStr
         THEN IF convSrc.name \in {"VERYLOW", "LOW", "MEDIUM", "HIGH", "VERYHIGH"}
              THEN <<PriorityNames[convSrc.name]>> ELSE <<>>
         ELSE IF convSrc.num \in 1..5 THEN <<convSrc.num>> ELSE <<>>
    ELSE IF convBy = "exchange"
    THEN IF convSrc.name = "Low" THEN <<LOW>>
         ELSE IF convSrc.name = "Normal" THEN <<MEDIUM>>
         ELSE IF convSrc.name = "High" THEN <<HIGH>> ELSE <<>>
    ELSE IF convBy = "jira"
    THEN IF convSrc.name \in DOMAIN priorities
         THEN <<priorities[convSrc.name]>> ELSE <<>>
    ELSE IF convSrc.num = 1 THEN <<HIGH>>
         ELSE IF convSrc.num = 2 THEN <<MEDIUM>>
         ELSE IF convSrc.num = 3 THEN <<LOW>> ELSE <<>>

\* C18: no priority conversion raises: each returns the Priority a known
\* backend value stands for and None for every other value.
C18_UnknownPriorityIsNone ==
    convBy # "none" => convOut = Returned(Counterpart)

----------------------------------------------------------------------------
(* Claims about heading *)

\* an attribute of a parameter set; one that is not set is off
Attr(d, k) == IF k \in DOMAIN d THEN d[k] ELSE FALSE

\* the last operation was heading(s, large) and its first push was made
WasHeading(large) ==
    /\ lastOp = "heading"
    /\ out # <<>>
    /\ out[1].cmd = "set"
    /\ Attr(out[1].arg, "double_height") = large

\* C19 as stated: a small heading pushes a parameter set that differs from
\* the one active before it in bold only, so double width and double height
\* of an enclosing scope stay on.
C19_SmallHeadingKeepsSize ==
    WasHeading(FALSE) =>
        \A k \in (DOMAIN out[1].arg \cup DOMAIN param) \ {"bold"} :
            Attr(out[1].arg, k) = Attr(param, k)

\* C19: heading(s, large) pushes the active parameter set with bold on and
\* with double_height and double_width both set to large: a small heading
\* switches double width and double height off while it is printed, and
\* leaves every other parameter as it is.
C19_HeadingSetsSize ==
    \A large \in BOOLEAN :
        WasHeading(large) =>
            /\ DOMAIN out[1].arg
                 = DOMAIN param \cup {"bold", "double_height", "double_width"}
            /\ out[1].arg["bold"] = TRUE
            /\ out[1].arg["double_width"] = large
            /\ \A k \in DOMAIN param \ {"bold", "double_height", "double_width"} :
                  out[1].arg[k] = param[k]

\* a small heading printed inside a double-width scope, at regular width:
\* "aa a" takes one line of the four columns
C19_Witness ==
    /\ WasHeading(FALSE)
    /\ exc = "none"
    /\ Attr(param, "double_width") = TRUE
    /\ out[1].arg["double_width"] = FALSE
    /\ Stream(out) = <<"a", "a", " ", "a", "\n">>

\* the position of the last push of the last operation
LastSetAt == Max({k \in 1..Len(out) : out[k].cmd = "set"})

\* the heading's text could not be written: a text call was refused before
\* the parameters were pushed back, or text itself raised
HeadingTextFailed ==
    \/ \E k \in 2..(LastSetAt - 1) : ~out[k].ok
    \/ exc \in {"TypeError", "IndexError", "ValueError"}

\* C20: a large heading that completes has pushed the merged parameters,
\* written its text, pushed the parameters of before and then written one
\* blank line; a small heading ends with the push of the parameters of
\* before; a heading whose text could not be written has still pushed the
\* parameters of before and has written nothing after that.
C20_BlankAfterRestore ==
    /\ (WasHeading(TRUE) /\ exc = "none") =>
          /\ out[Len(out)] = Call("text", <<"\n">>, TRUE)
          /\ LastSetAt = Len(out) - 1
          /\ out[LastSetAt].arg = param
          /\ out[1].arg = Update(param, [bold |-> TRUE, double_height |-> TRUE,
                                         double_width |-> TRUE])
          /\ \A k \in 2..(LastSetAt - 1) : out[k].cmd = "text"
          /\ LastSetAt > 2
    /\ (WasHeading(FALSE) /\ exc = "none") =>
          /\ LastSetAt = Len(out)
          /\ out[LastSetAt].arg = param
          /\ \A k \in 2..(LastSetAt - 1) : out[k].cmd = "text"
    /\ (\E large \in BOOLEAN : WasHeading(large) /\ out[1].ok /\ HeadingTextFailed) =>
          /\ LastSetAt = Len(out)
          /\ LastSetAt > 1
          /\ out[LastSetAt].arg = param

\* a large heading inside a scope, whose text the device refused: the
\* centred parameters were pushed back and no blank line followed
C20_Witness ==
    /\ WasHeading(TRUE)
    /\ exc = "DeviceError"
    /\ param = [align |-> "center"]
    /\ HeadingTextFailed
    /\ out[Len(out)] = Call("set", param, TRUE)

============================================================================
